---- MODULE Spec2Model ----
(***************************************************************************)
(* State-machine model of the call coordination code of                    *)
(* therapist-connect-backend:                                              *)
(*   - the REST call routes (src/routes/call.js) over the durable CallLog, *)
(*     User and Therapist collections;                                     *)
(*   - the socket layer of src/server.js (presence maps, activeCalls,      *)
(*     rooms, ring timers);                                                *)
(*   - the SignalingServer class (src/unnamed/part_005).                   *)
(* Every await of a handler is a separate step, so that handlers           *)
(* interleave exactly where the event loop lets them.                      *)
(***************************************************************************)
EXTENDS Integers, Sequences, FiniteSets, TLC

\* ------------------------------------------------------------- bounds
MaxCalls == 2
MaxReq == 2
MaxTime == 60
MaxRestCalls == 1
MaxSockets == 3
MaxCallSockets == 2
MaxSockCalls == 1
MaxPending == 1

\* ------------------------------------------------------------- identities
Users == {"u1", "u2"}
Therapists == {"t1", "t2"}
Identities == Users \cup Therapists
CallIds == 1..MaxCalls
Slots == 1..MaxReq
SocketIds == 1..MaxSockets

\* decoded.role of the token of an identity
Role(id) == IF id \in Users THEN "user" ELSE "therapist"

\* an absent (null / undefined) value and a present one
None == <<>>
Some(x) == <<x>>

\* ------------------------------------------------------------- pricing
CALL_TYPES == {"voice", "video"}

\* a variant of costPerMinute: the two prices exchanged
costPerMinute_Swapped(callType) == IF callType = "video" THEN 5 ELSE 8

costPerMinute(callType) == IF callType = "video" THEN 8 ELSE 5

\* therapistEarningsPerMinute is 2.5 (voice) and 4 (video): kept in tenths
therapistEarningsPerMinuteX10(callType) == IF callType = "video" THEN 40 ELSE 25

\* a variant of CeilDiv: the quotient rounded down
FloorDiv(a, b) == a \div b

CeilDiv(a, b) == (a + b - 1) \div b

Max(a, b) == IF a >= b THEN a ELSE b

Min(a, b) == IF a <= b THEN a ELSE b

ZeroCost == [durationMinutes |-> 0, costInCoins |-> 0, therapistEarningsCoins |-> 0]

calculateCallCost(duration, callType) ==
  LET durationMinutes == Max(1, CeilDiv(duration, 60))
  IN [durationMinutes |-> durationMinutes,
      costInCoins |-> durationMinutes * costPerMinute(callType),
      therapistEarningsCoins |->
        (durationMinutes * therapistEarningsPerMinuteX10(callType)) \div 10]

\* callLogSchema.methods.calculateCost: its own pricing table
calculateCost(durationSeconds, callType) ==
  LET costPerMinuteOf == IF callType = "video" THEN 8 ELSE 5
      earningsPerMinuteX10 == IF callType = "video" THEN 40 ELSE 25
      durationMinutes == Max(1, CeilDiv(durationSeconds, 60))
  IN [durationMinutes |-> durationMinutes,
      costInCoins |-> durationMinutes * costPerMinuteOf,
      therapistEarningsCoins |-> (durationMinutes * earningsPerMinuteX10) \div 10]

\* ------------------------------------------------------------- state
VARIABLES
  now,                 \* wall clock, seconds
  callLog,             \* CallLog collection: CallIds -> document
  coinBalance,         \* User.coinBalance
  totalEarningsCoins,  \* Therapist.totalEarningsCoins
  isAvailable,         \* Therapist.isAvailable
  reqs,                \* REST requests in flight: Slots -> handler frame
  ringTimer,           \* the setTimeout of /initiate, per call
  lastResp,            \* the last HTTP response sent
  debits,              \* history: amounts $inc'ed off the payer, per call
  credits,             \* history: amounts $inc'ed to the therapist, per call
  \* server.js
  sockets,             \* socket.io connections: state, socket.userId, ..., rooms
  connectedUsers,      \* Map userId -> socketId (0: no entry)
  connectedTherapists, \* Map therapistId -> socketId (0: no entry)
  activeCalls,         \* Map callId -> call info
  callInits,           \* handleCallInitiation frames waiting on their await
  timeouts,            \* pending ring setTimeouts
  emitted,             \* the messages the last step emitted
  \* SignalingServer
  sigConnectedUsers,   \* this.connectedUsers: userID -> socketID (0: no entry)
  userSockets,         \* this.userSockets: socketID -> userID ("": no entry)
  sigActiveCalls,      \* this.activeCalls: callID -> call info
  \* the cost calculation taken alone
  costInput,           \* the arguments (duration, callType) of a calculation
  routeCost,           \* what calculateCallCost of routes/call.js returned
  modelCost            \* what CallLog's calculateCost method returned

restState == <<callLog, coinBalance, totalEarningsCoins, isAvailable,
               reqs, ringTimer, lastResp, debits, credits>>

restVars == <<now, restState>>

sockVars == <<sockets, connectedUsers, connectedTherapists, activeCalls,
              callInits, timeouts, emitted>>

sigVars == <<sigConnectedUsers, userSockets, sigActiveCalls>>

calcVars == <<costInput, routeCost, modelCost>>

vars == <<restVars, sockVars, sigVars, calcVars>>

NoLog == [status |-> "none", userId |-> "", therapistId |-> "",
          callType |-> "voice", startTime |-> 0, actualStartTime |-> None,
          endTime |-> None, actualDuration |-> 0, costData |-> ZeroCost]

\* the frame of a handler: its request and the locals it keeps across awaits
\* (date is the handler's `new Date()`; id is req.userId where the handler
\* reads it again after its first await)
IdleReq == [kind |-> "idle", pc |-> "", id |-> "", call |-> 0,
            therapistId |-> "", callType |-> "", endedBy |-> "",
            date |-> 0, actualDuration |-> 0, costData |-> ZeroCost]

NoTimer == [pc |-> "off", date |-> 0]

NoResp == [code |-> 0, msg |-> ""]

ACTIVE_STATUSES == {"initiated", "answered"}

\* a variant of IncludesEnded: the status compared with "ended" instead of
\* searched for it
IncludesEnded_Equals(status) == status = "ended"

\* callLog.status.includes("ended"), over the values of the status enum
IncludesEnded(status) == status \in {"ended_by_user", "ended_by_therapist"}

Exists(c) == callLog[c].status # "none"

\* documents are created with consecutive identifiers
NextCallId == Cardinality({c \in CallIds : Exists(c)}) + 1

Respond(s, code, msg) ==
  /\ lastResp' = [code |-> code, msg |-> msg]
  /\ reqs' = [reqs EXCEPT ![s] = IdleReq]

\* a connection not yet made: no socket.userId, socket.therapistId or
\* socket.userType, in no room
NewSocket == [state |-> "new", userId |-> "", therapistId |-> "",
              userType |-> "", rooms |-> {}]

\* activeCalls has no entry
NoActiveCall == [status |-> "none", userId |-> "", therapistId |-> "",
                 initiatedAt |-> 0]

\* this.activeCalls has no entry
NoSigCall == [status |-> "none", callerID |-> "", calleeID |-> ""]

\* the accounts the model starts from: one user who can pay for two voice
\* minutes, one who can pay for one; one therapist available, one not
\* (Therapist.isAvailable defaults to false)
InitialBalance == [u \in Users |-> IF u = "u1" THEN 10 ELSE 5]

InitialAvailability == [t \in Therapists |-> t = "t1"]

\* a request is served by the first free frame
FreeSlot(s) == /\ reqs[s].kind = "idle"
               /\ \A x \in Slots : x < s => reqs[x].kind # "idle"

\* the collections, maps and queues after start-up, the users holding the
\* given balances
InitProgramWith(balance) ==
  /\ now = 0
  /\ callLog = [c \in CallIds |-> NoLog]
  /\ coinBalance = balance
  /\ totalEarningsCoins = [t \in Therapists |-> 0]
  /\ isAvailable = InitialAvailability
  /\ reqs = [s \in Slots |-> IdleReq]
  /\ ringTimer = [c \in CallIds |-> NoTimer]
  /\ lastResp = NoResp
  /\ debits = [c \in CallIds |-> <<>>]
  /\ credits = [c \in CallIds |-> <<>>]
  /\ sockets = [k \in SocketIds |-> NewSocket]
  /\ connectedUsers = [u \in Users |-> 0]
  /\ connectedTherapists = [t \in Therapists |-> 0]
  /\ activeCalls = [c \in CallIds |-> NoActiveCall]
  /\ callInits = {}
  /\ timeouts = {}
  /\ emitted = {}
  /\ sigConnectedUsers = [u \in Identities |-> 0]
  /\ userSockets = [k \in SocketIds |-> ""]
  /\ sigActiveCalls = [c \in CallIds |-> NoSigCall]

InitProgram == InitProgramWith(InitialBalance)

Init ==
  /\ InitProgram
  /\ costInput = [duration |-> 0, callType |-> "voice"]
  /\ routeCost = None
  /\ modelCost = None

\* ------------------------------------------------------------- clock
Tick ==
  /\ now < MaxTime
  /\ now' = now + 30
  /\ UNCHANGED <<restState, sockVars, sigVars, calcVars>>

dbVars == <<callLog, coinBalance, totalEarningsCoins, isAvailable>>

balanceVars == <<coinBalance, totalEarningsCoins, isAvailable, debits, credits>>

\* res.status(code).json(...) of a request that holds no frame yet
Reply(code, msg) ==
  lastResp' = [code |-> code, msg |-> msg]

Frame(s, kind, pc, id, c) ==
  reqs' = [reqs EXCEPT ![s] =
             [IdleReq EXCEPT !.kind = kind, !.pc = pc, !.id = id, !.call = c]]

Goto(s, pc) == reqs' = [reqs EXCEPT ![s].pc = pc]

\* middleware/auth.js: the token's role against the route's required role
\* ("" when the route takes any authenticated identity)
auth(requiredRole, id) == requiredRole = "" \/ Role(id) = requiredRole

\* ------------------------------------------------------------- POST /initiate
RING_TIMEOUT == 30

\* fewer than n calls are created or being created
CanCreate(n) ==
  NextCallId + Cardinality({x \in Slots : reqs[x].kind = "initiate"}) <= n

InitiateStart(s, id, therapistId, callType) ==
  /\ FreeSlot(s)
  /\ CanCreate(MaxCalls)
  /\ IF ~auth("user", id)
       THEN Reply(403, "Access denied") /\ UNCHANGED reqs
     ELSE IF coinBalance[id] < costPerMinute(callType)
       THEN Reply(400, "Insufficient coin balance")
            /\ UNCHANGED reqs
     ELSE /\ reqs' = [reqs EXCEPT ![s] =
                        [IdleReq EXCEPT !.kind = "initiate", !.pc = "findTherapist",
                                        !.id = id, !.therapistId = therapistId,
                                        !.callType = callType]]
          /\ UNCHANGED lastResp
  /\ UNCHANGED <<sockVars, sigVars, calcVars, now, dbVars, ringTimer, debits, credits>>

InitiateFindTherapist(s) ==
  /\ reqs[s].kind = "initiate" /\ reqs[s].pc = "findTherapist"
  /\ IF ~isAvailable[reqs[s].therapistId]
       THEN Respond(s, 400, "Therapist not available")
       ELSE Goto(s, "findUserCall") /\ UNCHANGED lastResp
  /\ UNCHANGED <<sockVars, sigVars, calcVars, now, dbVars, ringTimer, debits, credits>>

InitiateFindUserCall(s) ==
  /\ reqs[s].kind = "initiate" /\ reqs[s].pc = "findUserCall"
  /\ IF \E c \in CallIds : /\ callLog[c].userId = reqs[s].id
                           /\ callLog[c].status \in ACTIVE_STATUSES
       THEN Respond(s, 400, "You already have an active call")
       ELSE Goto(s, "findTherapistCall") /\ UNCHANGED lastResp
  /\ UNCHANGED <<sockVars, sigVars, calcVars, now, dbVars, ringTimer, debits, credits>>

InitiateFindTherapistCall(s) ==
  /\ reqs[s].kind = "initiate" /\ reqs[s].pc = "findTherapistCall"
  /\ IF \E c \in CallIds : /\ callLog[c].therapistId = reqs[s].therapistId
                           /\ callLog[c].status \in ACTIVE_STATUSES
       THEN Respond(s, 400, "Therapist is currently busy")
       ELSE /\ reqs' = [reqs EXCEPT ![s].pc = "save", ![s].date = now]
            /\ UNCHANGED lastResp
  /\ UNCHANGED <<sockVars, sigVars, calcVars, now, dbVars, ringTimer, debits, credits>>

\* callLog.save(), then setTimeout(..., 30000)
InitiateSave(s) ==
  /\ reqs[s].kind = "initiate" /\ reqs[s].pc = "save"
  /\ LET c == NextCallId IN
       /\ callLog' = [callLog EXCEPT ![c] =
                        [NoLog EXCEPT !.status = "initiated",
                                      !.userId = reqs[s].id,
                                      !.therapistId = reqs[s].therapistId,
                                      !.callType = reqs[s].callType,
                                      !.startTime = reqs[s].date]]
       /\ ringTimer' = [ringTimer EXCEPT ![c] = [pc |-> "armed", date |-> now]]
       /\ reqs' = [reqs EXCEPT ![s].pc = "notify", ![s].call = c]
  /\ UNCHANGED <<sockVars, sigVars, calcVars, now, balanceVars, lastResp>>

\* the push notification is sent or fails (caught); either way res.json(success)
InitiateNotify(s) ==
  /\ reqs[s].kind = "initiate" /\ reqs[s].pc = "notify"
  /\ Respond(s, 200, "success")
  /\ UNCHANGED <<sockVars, sigVars, calcVars, now, dbVars, ringTimer, debits, credits>>

\* the timeout callback: CallLog.findById, status check
TimerRead(c) ==
  /\ ringTimer[c].pc = "armed"
  /\ now >= ringTimer[c].date + RING_TIMEOUT
  /\ ringTimer' = [ringTimer EXCEPT ![c] =
                     IF callLog[c].status = "initiated"
                       THEN [pc |-> "update", date |-> now]
                       ELSE NoTimer]
  /\ UNCHANGED <<sockVars, sigVars, calcVars, now, dbVars, reqs, lastResp, debits, credits>>

\* the timeout callback: CallLog.findByIdAndUpdate(status: "missed")
TimerUpdate(c) ==
  /\ ringTimer[c].pc = "update"
  /\ callLog' = [callLog EXCEPT ![c].status = "missed",
                                ![c].endTime = Some(ringTimer[c].date)]
  /\ ringTimer' = [ringTimer EXCEPT ![c] = NoTimer]
  /\ UNCHANGED <<sockVars, sigVars, calcVars, now, balanceVars, reqs, lastResp>>

\* ------------------------------------------------------------- POST /answer/:callId
AnswerStart(s, id, c) ==
  /\ FreeSlot(s)
  /\ IF ~auth("therapist", id)
       THEN Reply(403, "Access denied") /\ UNCHANGED reqs
     ELSE IF ~Exists(c)
       THEN Reply(404, "Call not found") /\ UNCHANGED reqs
     ELSE IF callLog[c].therapistId # id
       THEN Reply(403, "Unauthorized to answer this call")
            /\ UNCHANGED reqs
     ELSE IF callLog[c].status # "initiated"
       THEN Reply(400, "Call cannot be answered")
            /\ UNCHANGED reqs
     ELSE Frame(s, "answer", "findTherapist", id, c) /\ UNCHANGED lastResp
  /\ UNCHANGED <<sockVars, sigVars, calcVars, now, dbVars, ringTimer, debits, credits>>

AnswerFindTherapist(s) ==
  /\ reqs[s].kind = "answer" /\ reqs[s].pc = "findTherapist"
  /\ IF ~isAvailable[reqs[s].id]
       THEN Respond(s, 400, "Therapist is no longer available")
       ELSE /\ reqs' = [reqs EXCEPT ![s].pc = "update", ![s].date = now]
            /\ UNCHANGED lastResp
  /\ UNCHANGED <<sockVars, sigVars, calcVars, now, dbVars, ringTimer, debits, credits>>

AnswerUpdate(s) ==
  /\ reqs[s].kind = "answer" /\ reqs[s].pc = "update"
  /\ callLog' = [callLog EXCEPT ![reqs[s].call].status = "answered",
                                ![reqs[s].call].actualStartTime = Some(reqs[s].date)]
  /\ Respond(s, 200, "success")
  /\ UNCHANGED <<sockVars, sigVars, calcVars, now, balanceVars, ringTimer>>

\* ------------------------------------------------------------- POST /reject/:callId
RejectStart(s, id, c) ==
  /\ FreeSlot(s)
  /\ IF ~auth("therapist", id)
       THEN Reply(403, "Access denied") /\ UNCHANGED reqs
     ELSE IF ~Exists(c)
       THEN Reply(404, "Call not found") /\ UNCHANGED reqs
     ELSE IF callLog[c].therapistId # id
       THEN Reply(403, "Unauthorized to reject this call")
            /\ UNCHANGED reqs
     ELSE IF callLog[c].status # "initiated"
       THEN Reply(400, "Call cannot be rejected")
            /\ UNCHANGED reqs
     ELSE /\ reqs' = [reqs EXCEPT ![s] =
                        [IdleReq EXCEPT !.kind = "reject", !.pc = "update",
                                        !.call = c, !.date = now]]
          /\ UNCHANGED lastResp
  /\ UNCHANGED <<sockVars, sigVars, calcVars, now, dbVars, ringTimer, debits, credits>>

RejectUpdate(s) ==
  /\ reqs[s].kind = "reject" /\ reqs[s].pc = "update"
  /\ callLog' = [callLog EXCEPT ![reqs[s].call].status = "rejected",
                                ![reqs[s].call].endTime = Some(reqs[s].date)]
  /\ Respond(s, 200, "success")
  /\ UNCHANGED <<sockVars, sigVars, calcVars, now, balanceVars, ringTimer>>

\* ------------------------------------------------------------- POST /cancel/:callId
CancelStart(s, id, c) ==
  /\ FreeSlot(s)
  /\ IF ~auth("user", id)
       THEN Reply(403, "Access denied") /\ UNCHANGED reqs
     ELSE IF ~Exists(c)
       THEN Reply(404, "Call not found") /\ UNCHANGED reqs
     ELSE IF callLog[c].userId # id
       THEN Reply(403, "Unauthorized to cancel this call")
            /\ UNCHANGED reqs
     ELSE IF callLog[c].status \notin {"initiated", "answered"}
       THEN Reply(400, "Call cannot be cancelled")
            /\ UNCHANGED reqs
     ELSE /\ reqs' = [reqs EXCEPT ![s] =
                        [IdleReq EXCEPT !.kind = "cancel", !.pc = "update",
                                        !.call = c, !.date = now]]
          /\ UNCHANGED lastResp
  /\ UNCHANGED <<sockVars, sigVars, calcVars, now, dbVars, ringTimer, debits, credits>>

CancelUpdate(s) ==
  /\ reqs[s].kind = "cancel" /\ reqs[s].pc = "update"
  /\ callLog' = [callLog EXCEPT ![reqs[s].call].status = "cancelled_by_user",
                                ![reqs[s].call].endTime = Some(reqs[s].date)]
  /\ Respond(s, 200, "success")
  /\ UNCHANGED <<sockVars, sigVars, calcVars, now, balanceVars, ringTimer>>

\* ------------------------------------------------------------- POST /end/:callId
\* the request body's duration: absent, or a number of seconds
DurationInputs == {None, Some(0), Some(90)}

\* a variant of EndCostData: the charge decided on the duration alone
EndCostData_AnyStatus(doc, balance, actualDuration) ==
  IF actualDuration > 0
    THEN LET costData == calculateCallCost(actualDuration, doc.callType) IN
         [costData EXCEPT
            !.costInCoins = Min(costData.costInCoins, balance),
            !.therapistEarningsCoins =
               IF costData.costInCoins > balance
                 THEN Min(costData.costInCoins, balance) \div 2
                 ELSE costData.therapistEarningsCoins]
    ELSE ZeroCost

\* lines 481-522: endTime, actualDuration and costData from the document read
EndCostData(doc, balance, actualDuration) ==
  IF doc.status = "answered" /\ actualDuration > 0
    THEN LET costData == calculateCallCost(actualDuration, doc.callType) IN
         IF costData.costInCoins > balance
           THEN [costData EXCEPT
                   !.costInCoins = Min(costData.costInCoins, balance),
                   !.therapistEarningsCoins =
                      Min(costData.costInCoins, balance) \div 2]
           ELSE costData
    ELSE ZeroCost

EndDuration(doc, duration, endTime) ==
  LET startTime == IF doc.actualStartTime # None
                     THEN doc.actualStartTime[1] ELSE doc.startTime
      actualDuration == IF duration = None
                          THEN Max(0, endTime - startTime) ELSE duration[1]
  IN Max(0, actualDuration)

EndStart(s, id, c, endedBy, duration) ==
  /\ FreeSlot(s)
  /\ IF ~Exists(c)
       THEN Reply(404, "Call not found") /\ UNCHANGED reqs
     ELSE IF IncludesEnded(callLog[c].status) \/ callLog[c].status = "cancelled_by_user"
       THEN Reply(200, "Call already ended") /\ UNCHANGED reqs
     ELSE IF \/ Role(id) = "user" /\ callLog[c].userId # id
             \/ Role(id) = "therapist" /\ callLog[c].therapistId # id
       THEN Reply(403, "Unauthorized to end this call")
            /\ UNCHANGED reqs
     ELSE LET actualDuration == EndDuration(callLog[c], duration, now) IN
          /\ reqs' = [reqs EXCEPT ![s] =
               [IdleReq EXCEPT
                  !.kind = "end", !.pc = "updateLog", !.id = id, !.call = c,
                  !.endedBy = endedBy, !.date = now,
                  !.actualDuration = actualDuration,
                  !.costData = EndCostData(callLog[c],
                                           coinBalance[callLog[c].userId],
                                           actualDuration)]]
          /\ UNCHANGED lastResp
  /\ UNCHANGED <<sockVars, sigVars, calcVars, now, dbVars, ringTimer, debits, credits>>

EndStatus(endedBy) == IF endedBy = "user" THEN "ended_by_user" ELSE "ended_by_therapist"

EndUpdateLog(s) ==
  /\ reqs[s].kind = "end" /\ reqs[s].pc = "updateLog"
  /\ callLog' = [callLog EXCEPT ![reqs[s].call] =
                  [@ EXCEPT !.endTime = Some(reqs[s].date),
                            !.actualDuration = reqs[s].actualDuration,
                            !.costData = reqs[s].costData,
                            !.status = EndStatus(reqs[s].endedBy)]]
  /\ IF reqs[s].costData.costInCoins > 0
       THEN Goto(s, "debit") /\ UNCHANGED lastResp
       ELSE Respond(s, 200, "success")
  /\ UNCHANGED <<sockVars, sigVars, calcVars, now, balanceVars, ringTimer>>

\* User.findByIdAndUpdate($inc coinBalance); a failure is caught and skips
\* the therapist's leg
EndDebit(s, ok) ==
  /\ reqs[s].kind = "end" /\ reqs[s].pc = "debit"
  /\ LET c == reqs[s].call
         amount == reqs[s].costData.costInCoins IN
     IF ok
       THEN /\ coinBalance' = [coinBalance EXCEPT ![callLog[c].userId] = @ - amount]
            /\ debits' = [debits EXCEPT ![c] = Append(@, amount)]
            /\ Goto(s, "credit")
            /\ UNCHANGED lastResp
       ELSE /\ Respond(s, 200, "success")
            /\ UNCHANGED <<coinBalance, debits>>
  /\ UNCHANGED <<sockVars, sigVars, calcVars, now, callLog, totalEarningsCoins, isAvailable, ringTimer, credits>>

\* Therapist.findByIdAndUpdate($inc totalEarningsCoins)
EndCredit(s, ok) ==
  /\ reqs[s].kind = "end" /\ reqs[s].pc = "credit"
  /\ LET c == reqs[s].call
         amount == reqs[s].costData.therapistEarningsCoins IN
     IF ok
       THEN /\ totalEarningsCoins' =
                 [totalEarningsCoins EXCEPT ![callLog[c].therapistId] = @ + amount]
            /\ credits' = [credits EXCEPT ![c] = Append(@, amount)]
       ELSE UNCHANGED <<totalEarningsCoins, credits>>
  /\ Respond(s, 200, "success")
  /\ UNCHANGED <<sockVars, sigVars, calcVars, now, callLog, coinBalance, isAvailable, ringTimer, debits>>

\* ------------------------------------------------------------- REST layer
\* the requests a client can send, served by the frames of S; at most n calls
\* are created
InitiateRequest(S, n) ==
  \E s \in S, id \in Identities, t \in Therapists, ct \in CALL_TYPES :
    CanCreate(n) /\ InitiateStart(s, id, t, ct)

RingRequest(S) ==
  \/ \E s \in S, id \in Identities, c \in CallIds : AnswerStart(s, id, c)
  \/ \E s \in S, id \in Identities, c \in CallIds : RejectStart(s, id, c)
  \/ \E s \in S, id \in Identities, c \in CallIds : CancelStart(s, id, c)

EndRequest(S) ==
  \E s \in S, id \in Identities, c \in CallIds,
     endedBy \in {"user", "therapist"}, duration \in DurationInputs :
    EndStart(s, id, c, endedBy, duration)

\* the continuation of a handler after one of its awaits
InitiateContinue ==
  \/ \E s \in Slots : InitiateFindTherapist(s)
  \/ \E s \in Slots : InitiateFindUserCall(s)
  \/ \E s \in Slots : InitiateFindTherapistCall(s)
  \/ \E s \in Slots : InitiateSave(s)
  \/ \E s \in Slots : InitiateNotify(s)

RingContinue ==
  \/ \E s \in Slots : AnswerFindTherapist(s)
  \/ \E s \in Slots : AnswerUpdate(s)
  \/ \E s \in Slots : RejectUpdate(s)
  \/ \E s \in Slots : CancelUpdate(s)

EndContinue ==
  \/ \E s \in Slots : EndUpdateLog(s)
  \/ \E s \in Slots, ok \in BOOLEAN : EndDebit(s, ok)
  \/ \E s \in Slots, ok \in BOOLEAN : EndCredit(s, ok)

RestTimers ==
  \/ Tick
  \/ \E c \in CallIds : TimerRead(c)
  \/ \E c \in CallIds : TimerUpdate(c)

\* the life of one call: one request at a time, against the clock and the
\* ring timer
NextRest ==
  \/ InitiateRequest({1}, MaxRestCalls) \/ RingRequest({1}) \/ EndRequest({1})
  \/ InitiateContinue \/ RingContinue \/ EndContinue
  \/ RestTimers

SpecRest == Init /\ [][NextRest]_vars

\* the life of one call: requests served concurrently (the clock stands still)
NextRace ==
  \/ InitiateRequest(Slots, MaxRestCalls) \/ RingRequest(Slots) \/ EndRequest(Slots)
  \/ InitiateContinue \/ RingContinue \/ EndContinue

SpecRace == Init /\ [][NextRace]_vars

\* several calls set up concurrently (the clock stands still)
NextSetup ==
  \/ InitiateRequest(Slots, MaxCalls) \/ RingRequest(Slots)
  \/ InitiateContinue \/ RingContinue

SpecSetup == Init /\ [][NextSetup]_vars

\* ------------------------------------------------------------- server.js: presence
\* io.on("connection"): connections are numbered in the order they are made
Connect(k) ==
  /\ sockets[k].state = "new"
  /\ \A x \in SocketIds : x < k => sockets[x].state # "new"
  /\ sockets' = [sockets EXCEPT ![k].state = "open"]
  /\ emitted' = {}
  /\ UNCHANGED <<restVars, calcVars, sigVars, connectedUsers, connectedTherapists, activeCalls,
                 callInits, timeouts>>

Msg(event, to, c, from) == [event |-> event, to |-> to, call |-> c, from |-> from]

\* io.to(socketId).emit(...): nothing is sent when the connection lookup failed
EmitTo(event, to, c, from) ==
  IF to = 0 THEN {} ELSE {Msg(event, to, c, from)}

\* socket.to(roomId).emit(...): every open socket in the room but the sender
EmitToRoom(event, roomId, c, from) ==
  {Msg(event, k, c, from) :
     k \in {x \in SocketIds : /\ x # from
                              /\ sockets[x].state = "open"
                              /\ roomId \in sockets[x].rooms}}

UserConnect(k, userId) ==
  /\ sockets[k].state = "open"
  /\ connectedUsers' = [connectedUsers EXCEPT ![userId] = k]
  /\ sockets' = [sockets EXCEPT ![k].userId = userId, ![k].userType = "user"]
  /\ emitted' = {Msg("connection-confirmed", k, 0, k)}
  /\ UNCHANGED <<restVars, calcVars, sigVars, connectedTherapists, activeCalls, callInits, timeouts>>

TherapistConnect(k, therapistId) ==
  /\ sockets[k].state = "open"
  /\ connectedTherapists' = [connectedTherapists EXCEPT ![therapistId] = k]
  /\ sockets' = [sockets EXCEPT ![k].therapistId = therapistId,
                                ![k].userType = "therapist"]
  /\ emitted' = {Msg("connection-confirmed", k, 0, k)}
  /\ UNCHANGED <<restVars, calcVars, sigVars, connectedUsers, activeCalls, callInits, timeouts>>

\* the calls the disconnect handler cleans up for socket k
DisconnectCalls(k) ==
  {c \in CallIds : /\ activeCalls[c].status # "none"
                   /\ \/ activeCalls[c].userId = sockets[k].userId
                      \/ activeCalls[c].therapistId = sockets[k].therapistId}

\* socket.on("disconnect"): the socket has left its rooms
Disconnect(k) ==
  /\ sockets[k].state = "open"
  /\ IF sockets[k].userType = "user" /\ sockets[k].userId # ""
       THEN /\ connectedUsers' = [connectedUsers EXCEPT ![sockets[k].userId] = 0]
            /\ UNCHANGED connectedTherapists
     ELSE IF sockets[k].userType = "therapist" /\ sockets[k].therapistId # ""
       THEN /\ connectedTherapists' =
                 [connectedTherapists EXCEPT ![sockets[k].therapistId] = 0]
            /\ UNCHANGED connectedUsers
     ELSE UNCHANGED <<connectedUsers, connectedTherapists>>
  /\ activeCalls' = [c \in CallIds |->
                       IF c \in DisconnectCalls(k) THEN NoActiveCall
                                                   ELSE activeCalls[c]]
  /\ emitted' = UNION {EmitToRoom("participant-disconnected", c, c, k) :
                         c \in DisconnectCalls(k)}
  /\ sockets' = [sockets EXCEPT ![k] = [NewSocket EXCEPT !.state = "closed"]]
  /\ UNCHANGED <<restVars, calcVars, sigVars, callInits, timeouts>>

\* ------------------------------------------------------------- server.js: calls
\* Map.get: 0 (undefined) for a key the map does not hold, such as the ""
\* that stands for a field the client's payload leaves out
Get(map, key) == IF key \in DOMAIN map THEN map[key] ELSE 0

\* socket.on("call-therapist" / "initiate-call") -> handleCallInitiation, up to
\* its await: the call is stored and both connections are looked up
CallTherapistWithin(n, k, callId, userId, therapistId) ==
  /\ sockets[k].state = "open"
  /\ Cardinality(callInits) + Cardinality(timeouts) < n
  /\ activeCalls' = [activeCalls EXCEPT ![callId] =
                       [status |-> "ringing", userId |-> userId,
                        therapistId |-> therapistId, initiatedAt |-> now]]
  /\ callInits' = callInits \cup
                    {[socket |-> k, callId |-> callId,
                      therapistConnection |-> Get(connectedTherapists, therapistId),
                      userConnection |-> Get(connectedUsers, userId)]}
  /\ emitted' = {}
  /\ UNCHANGED <<restVars, calcVars, sigVars, sockets, connectedUsers, connectedTherapists, timeouts>>

\* the same, with at most MaxPending initiations pending
CallTherapist(k, callId, userId, therapistId) ==
  CallTherapistWithin(MaxPending, k, callId, userId, therapistId)

\* handleCallInitiation after Therapist.findById / sendCallNotification: the
\* incoming-call emit and the setTimeout, or the catch block when one threw
CallInitiationResume(f, ok) ==
  /\ f \in callInits
  /\ callInits' = callInits \ {f}
  /\ IF ok
       THEN /\ emitted' = EmitTo("incoming-call", f.therapistConnection,
                                 f.callId, f.socket)
            /\ timeouts' = timeouts \cup
                             {[callId |-> f.callId,
                               userConnection |-> f.userConnection,
                               due |-> now + RING_TIMEOUT]}
       ELSE /\ emitted' = {Msg("call-error", f.socket, f.callId, f.socket)}
            /\ UNCHANGED timeouts
  /\ UNCHANGED <<restVars, calcVars, sigVars, sockets, connectedUsers, connectedTherapists, activeCalls>>

\* the setTimeout callback of handleCallInitiation
RingTimeout(t) ==
  /\ t \in timeouts
  /\ now >= t.due
  /\ timeouts' = timeouts \ {t}
  /\ IF activeCalls[t.callId].status = "ringing"
       THEN /\ activeCalls' = [activeCalls EXCEPT ![t.callId] = NoActiveCall]
            /\ emitted' = EmitTo("call-timeout", t.userConnection, t.callId, 0)
       ELSE /\ emitted' = {}
            /\ UNCHANGED activeCalls
  /\ UNCHANGED <<restVars, calcVars, sigVars, sockets, connectedUsers, connectedTherapists, callInits>>

\* socket.on("call-accepted")
CallAccepted(k, callId, userId) ==
  /\ sockets[k].state = "open"
  /\ activeCalls' = IF activeCalls[callId].status # "none"
                      THEN [activeCalls EXCEPT ![callId].status = "answered"]
                      ELSE activeCalls
  /\ emitted' = EmitTo("call-accepted", connectedUsers[userId], callId, k)
  /\ UNCHANGED <<restVars, calcVars, sigVars, sockets, connectedUsers, connectedTherapists,
                 callInits, timeouts>>

\* socket.on("answer-call") and socket.on("reject-call"): socket.emit sends the
\* event back to the sender's client
EchoToSender(k, event, callId) ==
  /\ sockets[k].state = "open"
  /\ emitted' = {Msg(event, k, callId, k)}
  /\ UNCHANGED <<restVars, calcVars, sigVars, sockets, connectedUsers, connectedTherapists,
                 activeCalls, callInits, timeouts>>

\* socket.on("call-rejected")
CallRejected(k, callId, userId) ==
  /\ sockets[k].state = "open"
  /\ activeCalls' = [activeCalls EXCEPT ![callId] = NoActiveCall]
  /\ emitted' = EmitTo("call-rejected", connectedUsers[userId], callId, k)
  /\ UNCHANGED <<restVars, calcVars, sigVars, sockets, connectedUsers, connectedTherapists,
                 callInits, timeouts>>

\* socket.on("cancel-call")
CancelCall(k, callId, therapistId) ==
  /\ sockets[k].state = "open"
  /\ activeCalls' = [activeCalls EXCEPT ![callId] = NoActiveCall]
  /\ emitted' = EmitTo("call-cancelled", connectedTherapists[therapistId], callId, k)
  /\ UNCHANGED <<restVars, calcVars, sigVars, sockets, connectedUsers, connectedTherapists,
                 callInits, timeouts>>

\* socket.on("end-call")
EndCall(k, callId) ==
  /\ sockets[k].state = "open"
  /\ activeCalls' = [activeCalls EXCEPT ![callId] = NoActiveCall]
  /\ emitted' = EmitToRoom("call-ended", callId, callId, k)
  /\ UNCHANGED <<restVars, calcVars, sigVars, sockets, connectedUsers, connectedTherapists,
                 callInits, timeouts>>

\* ------------------------------------------------------------- server.js: signaling
\* the room of a call is named after it (roomId "room-<callId>")
SIGNALS == {"offer", "answer", "ice-candidate"}

\* socket.on("offer" / "answer" / "ice-candidate")
Signal(k, event, roomId) ==
  /\ sockets[k].state = "open"
  /\ emitted' = EmitToRoom(event, roomId, roomId, k)
  /\ UNCHANGED <<restVars, calcVars, sigVars, sockets, connectedUsers, connectedTherapists,
                 activeCalls, callInits, timeouts>>

\* socket.on("join-room")
JoinRoom(k, roomId) ==
  /\ sockets[k].state = "open"
  /\ sockets' = [sockets EXCEPT ![k].rooms = @ \cup {roomId}]
  /\ emitted' = EmitToRoom("user-joined", roomId, roomId, k)
  /\ UNCHANGED <<restVars, calcVars, sigVars, connectedUsers, connectedTherapists, activeCalls,
                 callInits, timeouts>>

\* socket.on("leave-room")
LeaveRoom(k, roomId) ==
  /\ sockets[k].state = "open"
  /\ sockets' = [sockets EXCEPT ![k].rooms = @ \ {roomId}]
  /\ emitted' = EmitToRoom("user-left", roomId, roomId, k)
  /\ UNCHANGED <<restVars, calcVars, sigVars, connectedUsers, connectedTherapists, activeCalls,
                 callInits, timeouts>>

\* connections K made, registered as the identities U and T, and lost
SockPresence(K, U, T) ==
  \/ \E k \in K : Connect(k)
  \/ \E k \in K, u \in U : UserConnect(k, u)
  \/ \E k \in K, t \in T : TherapistConnect(k, t)
  \/ \E k \in K : Disconnect(k)

\* the events of the call flow, sent on the connections K about the calls C
\* between the identities U and T
SockCalls(K, C, U, T) ==
  \/ \E k \in K, c \in C, u \in U, t \in T : CallTherapist(k, c, u, t)
  \/ \E f \in callInits, ok \in BOOLEAN : CallInitiationResume(f, ok)
  \/ \E t \in timeouts : RingTimeout(t)
  \/ \E k \in K, c \in C, u \in U : CallAccepted(k, c, u)
  \/ \E k \in K, c \in C, e \in {"call-accepted", "call-rejected"} :
       EchoToSender(k, e, c)
  \/ \E k \in K, c \in C, u \in U : CallRejected(k, c, u)
  \/ \E k \in K, c \in C, t \in T : CancelCall(k, c, t)
  \/ \E k \in K, c \in C : EndCall(k, c)

\* the events of the signaling rooms
SockRooms(K, C) ==
  \/ \E k \in K, e \in SIGNALS, r \in C : Signal(k, e, r)
  \/ \E k \in K, r \in C : JoinRoom(k, r)
  \/ \E k \in K, r \in C : LeaveRoom(k, r)

\* the call flow of server.js: one user and one therapist on two connections
NextSock ==
  \/ Tick
  \/ SockPresence(1..MaxCallSockets, {"u1"}, {"t1"})
  \/ SockCalls(1..MaxCallSockets, 1..MaxSockCalls, {"u1"}, {"t1"})

SpecSock == Init /\ [][NextSock]_vars

\* the signaling rooms of server.js: three connections, any of which may be
\* registered as the user or as the therapist
NextRoom ==
  \/ SockPresence(SocketIds, {"u1"}, {"t1"})
  \/ SockRooms(SocketIds, 1..MaxSockCalls)

SpecRoom == Init /\ [][NextRoom]_vars

\* ------------------------------------------------------------- SignalingServer
\* socket.broadcast.emit(...): every open socket but the sender
Broadcast(event, from) ==
  {Msg(event, k, 0, from) :
     k \in {x \in SocketIds : x # from /\ sockets[x].state = "open"}}

\* socket.on('register')
Register(k, userID) ==
  /\ sockets[k].state = "open"
  /\ sigConnectedUsers' = [sigConnectedUsers EXCEPT ![userID] = k]
  /\ userSockets' = [userSockets EXCEPT ![k] = userID]
  /\ emitted' = {Msg("registered", k, 0, k)}
                  \cup Broadcast("user-status-changed", k)
  /\ UNCHANGED <<restVars, calcVars, sockets, connectedUsers, connectedTherapists,
                 activeCalls, callInits, timeouts, sigActiveCalls>>

\* a variant of SigInitiateCall: the call is stored before the callee is
\* looked up
SigInitiateCall_StoreFirst(k, callerID, calleeID, callID) ==
  /\ sockets[k].state = "open"
  /\ sigActiveCalls' = [sigActiveCalls EXCEPT ![callID] =
                          [status |-> "ringing", callerID |-> callerID,
                           calleeID |-> calleeID]]
  /\ LET calleeSocketID == sigConnectedUsers[calleeID] IN
     emitted' = IF calleeSocketID = 0
                  THEN {Msg("call-error", k, callID, k)}
                  ELSE {Msg("incoming-call", calleeSocketID, callID, k),
                        Msg("call-initiated", k, callID, k)}
  /\ UNCHANGED <<restVars, calcVars, sockets, connectedUsers, connectedTherapists,
                 activeCalls, callInits, timeouts, sigConnectedUsers, userSockets>>

\* socket.on('initiate-call')
SigInitiateCall(k, callerID, calleeID, callID) ==
  /\ sockets[k].state = "open"
  /\ LET calleeSocketID == sigConnectedUsers[calleeID] IN
     IF calleeSocketID = 0
       THEN /\ emitted' = {Msg("call-error", k, callID, k)}
            /\ UNCHANGED sigActiveCalls
       ELSE /\ sigActiveCalls' = [sigActiveCalls EXCEPT ![callID] =
                                    [status |-> "ringing", callerID |-> callerID,
                                     calleeID |-> calleeID]]
            /\ emitted' = {Msg("incoming-call", calleeSocketID, callID, k),
                           Msg("call-initiated", k, callID, k)}
  /\ UNCHANGED <<restVars, calcVars, sockets, connectedUsers, connectedTherapists,
                 activeCalls, callInits, timeouts, sigConnectedUsers, userSockets>>

\* socket.on('accept-call')
AcceptCall(k, callID) ==
  /\ sockets[k].state = "open"
  /\ LET call == sigActiveCalls[callID]
         callerSocketID == IF call.status = "none" THEN 0
                           ELSE sigConnectedUsers[call.callerID] IN
     IF call.status = "none"
       THEN /\ emitted' = {Msg("call-error", k, callID, k)}
            /\ UNCHANGED sigActiveCalls
     ELSE IF callerSocketID # 0
       THEN /\ sigActiveCalls' = [sigActiveCalls EXCEPT ![callID].status = "connecting"]
            /\ emitted' = {Msg("call-accepted", callerSocketID, callID, k)}
     ELSE /\ emitted' = {}
          /\ UNCHANGED sigActiveCalls
  /\ UNCHANGED <<restVars, calcVars, sockets, connectedUsers, connectedTherapists,
                 activeCalls, callInits, timeouts, sigConnectedUsers, userSockets>>

\* socket.on('reject-call') of the SignalingServer
SigRejectCall(k, callID) ==
  /\ sockets[k].state = "open"
  /\ LET call == sigActiveCalls[callID] IN
     IF call.status = "none"
       THEN /\ emitted' = {}
            /\ UNCHANGED sigActiveCalls
       ELSE /\ emitted' = EmitTo("call-rejected", sigConnectedUsers[call.callerID],
                                 callID, k)
            /\ sigActiveCalls' = [sigActiveCalls EXCEPT ![callID] = NoSigCall]
  /\ UNCHANGED <<restVars, calcVars, sockets, connectedUsers, connectedTherapists,
                 activeCalls, callInits, timeouts, sigConnectedUsers, userSockets>>

WEBRTC_SIGNALS == {"webrtc-offer", "webrtc-answer", "webrtc-ice-candidate"}

\* socket.on('webrtc-offer' / 'webrtc-answer' / 'webrtc-ice-candidate')
WebrtcSignal(k, event, callID, targetUserID) ==
  /\ sockets[k].state = "open"
  /\ emitted' = EmitTo(event, sigConnectedUsers[targetUserID], callID, k)
  /\ UNCHANGED <<restVars, calcVars, sigVars, sockets, connectedUsers, connectedTherapists,
                 activeCalls, callInits, timeouts>>

\* the other participant, as 'end-call' and 'disconnect' compute it
OtherUserID(call, userID) ==
  IF call.callerID = userID THEN call.calleeID ELSE call.callerID

\* socket.on('end-call') of the SignalingServer
SigEndCall(k, callID) ==
  /\ sockets[k].state = "open"
  /\ LET call == sigActiveCalls[callID] IN
     IF call.status = "none"
       THEN /\ emitted' = {}
            /\ UNCHANGED sigActiveCalls
       ELSE /\ emitted' = EmitTo("call-ended",
                                 sigConnectedUsers[OtherUserID(call, userSockets[k])],
                                 callID, k)
            /\ sigActiveCalls' = [sigActiveCalls EXCEPT ![callID] = NoSigCall]
  /\ UNCHANGED <<restVars, calcVars, sockets, connectedUsers, connectedTherapists,
                 activeCalls, callInits, timeouts, sigConnectedUsers, userSockets>>

\* the calls 'disconnect' ends for userID
SigCallsOf(userID) ==
  {c \in CallIds : /\ sigActiveCalls[c].status # "none"
                   /\ userID \in {sigActiveCalls[c].callerID,
                                  sigActiveCalls[c].calleeID}}

\* socket.on('disconnect') of the SignalingServer
SigDisconnect(k) ==
  /\ sockets[k].state = "open"
  /\ sockets' = [sockets EXCEPT ![k] = [NewSocket EXCEPT !.state = "closed"]]
  /\ LET userID == userSockets[k] IN
     IF userID = ""
       THEN /\ emitted' = {}
            /\ UNCHANGED sigVars
       ELSE LET users == [sigConnectedUsers EXCEPT ![userID] = 0] IN
            /\ sigConnectedUsers' = users
            /\ userSockets' = [userSockets EXCEPT ![k] = ""]
            /\ sigActiveCalls' = [c \in CallIds |->
                                    IF c \in SigCallsOf(userID) THEN NoSigCall
                                    ELSE sigActiveCalls[c]]
            /\ emitted' =
                 UNION {EmitTo("call-ended",
                               users[OtherUserID(sigActiveCalls[c], userID)], c, k) :
                          c \in SigCallsOf(userID)}
                 \cup Broadcast("user-status-changed", k)
  /\ UNCHANGED <<restVars, calcVars, connectedUsers, connectedTherapists, activeCalls,
                 callInits, timeouts>>

\* the identities that register with the SignalingServer
SigUsers == {"u1", "u2", "t1"}

SigNext(K, C, U, A, B) ==
  \/ \E k \in K : Connect(k)
  \/ \E k \in K, u \in U : Register(k, u)
  \/ \E k \in K, a \in A, b \in B, c \in C : SigInitiateCall(k, a, b, c)
  \/ \E k \in K, c \in C : AcceptCall(k, c)
  \/ \E k \in K, c \in C : SigRejectCall(k, c)
  \/ \E k \in K, e \in WEBRTC_SIGNALS, c \in C, u \in U :
       WebrtcSignal(k, e, c, u)
  \/ \E k \in K, c \in C : SigEndCall(k, c)
  \/ \E k \in K : SigDisconnect(k)

NextSig == SigNext(SocketIds, 1..MaxSockCalls, SigUsers, {"u1"}, {"t1"})

SpecSig == Init /\ [][NextSig]_vars

\* ============================================================= claims
TERMINAL_STATUSES == {"ended_by_user", "ended_by_therapist", "rejected",
                      "cancelled_by_user", "missed"}

\* C1: whatever the interleaving of the termination triggers of a call, the
\* payer is debited and the therapist credited at most once for that call
\* (the "not twice" half of "exactly once").
C1_SettledOnce ==
  \A c \in CallIds : Len(debits[c]) <= 1 /\ Len(credits[c]) <= 1

\* C2: once the status of a call record is terminal, no later step changes it.
C2_TerminalIsFinal ==
  [][\A c \in CallIds :
       callLog[c].status \in TERMINAL_STATUSES
         => callLog'[c].status = callLog[c].status]_vars

\* C3: every identity is the user or the therapist of at most one call record
\* whose status is initiated or answered.
ActiveCallsOf(id) ==
  {c \in CallIds : /\ callLog[c].status \in ACTIVE_STATUSES
                   /\ id \in {callLog[c].userId, callLog[c].therapistId}}

C3_OneActiveCallPerIdentity ==
  \A id \in Identities : Cardinality(ActiveCallsOf(id)) <= 1

\* C4: the ring timeout never turns an answered call into a missed one, and
\* a call the timer has marked missed is never turned into answered.
C4_TimeoutOnlyWhileRinging ==
  [][\A c \in CallIds :
       /\ callLog[c].status = "answered" => callLog'[c].status # "missed"
       /\ callLog[c].status = "missed" => callLog'[c].status # "answered"]_vars

\* C5: the coin balance of a payer is never negative.
C5_BalanceNeverNegative ==
  \A u \in Users : coinBalance[u] >= 0

\* C10: a cancel never takes a call out of answered: an answered call is
\* never moved to cancelled.
C10_NoCancelOfAnswered ==
  [][\A c \in CallIds :
       callLog[c].status = "answered"
         => callLog'[c].status # "cancelled_by_user"]_vars

\* the two participants of a call of the SignalingServer
SigParticipants(c) == {sigActiveCalls[c].callerID, sigActiveCalls[c].calleeID}

\* C6: a signaling payload relayed for a call in the call table is sent by a
\* participant of that call and delivered to a participant of that call: an
\* identity that is neither its caller nor its callee neither gets a payload
\* delivered nor receives one.
C6_RelayOnlyBetweenParticipants ==
  \A m \in emitted :
    (m.event \in WEBRTC_SIGNALS /\ sigActiveCalls[m.call].status # "none")
      => /\ userSockets[m.from] \in SigParticipants(m.call)
         /\ userSockets[m.to] \in SigParticipants(m.call)

\* C7: a disconnect leaves the presence entry of an identity alone when the
\* entry holds another connection than the disconnecting one.
C7_StaleDisconnectKeepsPresence ==
  [][\A k \in SocketIds :
       (sockets[k].state = "open" /\ sockets'[k].state = "closed")
         => /\ \A u \in Users :
                 connectedUsers[u] # k => connectedUsers'[u] = connectedUsers[u]
            /\ \A t \in Therapists :
                 connectedTherapists[t] # k
                   => connectedTherapists'[t] = connectedTherapists[t]]_vars

\* the connection k is registered as the callee of the call c
IsCallee(k, c) ==
  /\ sockets[k].userType = "therapist"
  /\ sockets[k].therapistId = activeCalls[c].therapistId

\* C8: an answer event that does not come from the callee's connection, or
\* that arrives for a call that is not ringing, leaves the entry of the call
\* in the call table unchanged.
C8_AnswerOnlyByCalleeWhileRinging ==
  [][\A c \in CallIds : \A m \in emitted' :
       (/\ m.event = "call-accepted" /\ m.call = c /\ m.from # m.to
        /\ ~IsCallee(m.from, c) \/ activeCalls[c].status # "ringing")
         => activeCalls'[c] = activeCalls[c]]_vars

\* C9: a reject event for a call of the call table that does not come from
\* the callee's connection, or that arrives when the call is not ringing,
\* leaves the call in the call table, unchanged.
C9_RejectOnlyByCalleeWhileRinging ==
  [][\A c \in CallIds : \A m \in emitted' :
       (/\ m.event = "call-rejected" /\ m.call = c /\ m.from # m.to
        /\ activeCalls[c].status # "none"
        /\ ~IsCallee(m.from, c) \/ activeCalls[c].status # "ringing")
         => /\ activeCalls'[c] = activeCalls[c]
            /\ activeCalls'[c].status # "none"]_vars

ENDED_STATUSES == {"ended_by_user", "ended_by_therapist"}

\* C11: an end event never moves a call that is still ringing to ended: a
\* call record whose status is initiated does not become ended_by_user or
\* ended_by_therapist in one step.
C11_EndOnlyFromAnswered ==
  [][\A c \in CallIds :
       callLog[c].status = "initiated"
         => callLog'[c].status \notin ENDED_STATUSES]_vars

\* C12: an end request on a call whose status is already ended_by_user or
\* ended_by_therapist is never taken into processing; it is answered "Call
\* already ended" with code 200, and that answer comes with no change to any
\* call record, balance, earnings or pending request.
C12_EndIsIdempotent ==
  [][/\ \A s \in Slots :
          (reqs[s].kind # "end" /\ reqs'[s].kind = "end")
            => callLog[reqs'[s].call].status \notin ENDED_STATUSES
     /\ (lastResp' # lastResp /\ lastResp'.msg = "Call already ended")
          => /\ lastResp'.code = 200
             /\ UNCHANGED <<callLog, coinBalance, totalEarningsCoins, reqs>>]_vars

\* a second end request has been answered for a call that was charged once
C12_Witness ==
  \E c \in CallIds :
    /\ callLog[c].status \in ENDED_STATUSES
    /\ lastResp = [code |-> 200, msg |-> "Call already ended"]
    /\ Len(debits[c]) = 1

\* C13: a participant's answer, reject or cancel that finds the call already
\* in a terminal status (another trigger won) is answered with success, never
\* with an error.
C13_LoserGetsSuccess ==
  [][\A s \in Slots, id \in Identities, c \in CallIds :
       (/\ callLog[c].status \in TERMINAL_STATUSES
        /\ FreeSlot(s)
        /\ \/ /\ callLog[c].therapistId = id
              /\ AnswerStart(s, id, c) \/ RejectStart(s, id, c)
           \/ /\ callLog[c].userId = id
              /\ CancelStart(s, id, c))
         => lastResp'.code = 200]_vars

\* ------------------------------------------------------------- the cost calculation alone
MaxDuration == 200

\* the call types a caller of the calculation may pass: the two priced ones
\* and one the pricing table does not know
CallTypeInputs == CALL_TYPES \cup {"other"}

InitCost ==
  /\ InitProgram
  /\ costInput \in [duration : 0..MaxDuration, callType : CallTypeInputs]
  /\ routeCost = None
  /\ modelCost = None

\* calculateCallCost(duration, callType) of routes/call.js is called
RouteCalculate ==
  /\ routeCost = None
  /\ routeCost' = Some(calculateCallCost(costInput.duration, costInput.callType))
  /\ UNCHANGED <<restVars, sockVars, sigVars, costInput, modelCost>>

\* callLog.calculateCost(durationSeconds, callType) is called
ModelCalculate ==
  /\ modelCost = None
  /\ modelCost' = Some(calculateCost(costInput.duration, costInput.callType))
  /\ UNCHANGED <<restVars, sockVars, sigVars, costInput, routeCost>>

NextCost == RouteCalculate \/ ModelCalculate

SpecCost == InitCost /\ [][NextCost]_vars

\* the least number of whole minutes, one at least, that cover d seconds
BilledMinutes(d) == CHOOSE m \in 1..(MaxDuration + 60) :
                      /\ 60 * m >= d
                      /\ m = 1 \/ 60 * (m - 1) < d

\* floor(m * 2.5) for voice and m * 4 for video
ExpectedEarnings(m, t) ==
  IF t = "video" THEN 4 * m
  ELSE CHOOSE e \in 0..(3 * m) : 2 * e <= 5 * m /\ 5 * m < 2 * e + 2

ExpectedCost(d, t) ==
  [durationMinutes |-> BilledMinutes(d),
   costInCoins |-> BilledMinutes(d) * (IF t = "video" THEN 8 ELSE 5),
   therapistEarningsCoins |-> ExpectedEarnings(BilledMinutes(d), t)]

\* C14: for a voice or video call of any duration, the route helper returns
\* billedMinutes = max(1, ceil(d/60)), cost = billedMinutes x rate and
\* earnings = floor(billedMinutes x therapist rate); the CallLog method
\* returns what the route helper returns, for every input.
C14_CostFormula ==
  /\ (routeCost # None /\ costInput.callType \in CALL_TYPES)
       => routeCost[1] = ExpectedCost(costInput.duration, costInput.callType)
  /\ (routeCost # None /\ modelCost # None) => routeCost = modelCost

\* both calculations have run for 90 seconds of voice: 2 minutes, 10 coins, 5 earned
C14_Witness ==
  /\ costInput = [duration |-> 90, callType |-> "voice"]
  /\ routeCost = Some([durationMinutes |-> 2, costInCoins |-> 10,
                       therapistEarningsCoins |-> 5])
  /\ modelCost = routeCost

\* C15: the duration recorded and billed for a call that was answered and
\* then ended is the time from its answer to its end as the system recorded
\* them (endTime - actualStartTime), whatever the end request carried.
C15_DurationIsElapsedTime ==
  \A c \in CallIds :
    (/\ callLog[c].status \in ENDED_STATUSES
     /\ callLog[c].actualStartTime # None
     /\ callLog[c].endTime # None)
      => callLog[c].actualDuration
           = callLog[c].endTime[1] - callLog[c].actualStartTime[1]

\* C16: a call whose record was never answered (no actualStartTime) carries
\* cost 0 and earnings 0, and nothing was ever taken off its payer or added
\* to its therapist for it, however it was terminated.
C16_NoChargeIfNeverAnswered ==
  \A c \in CallIds :
    callLog[c].actualStartTime = None
      => /\ callLog[c].costData.costInCoins = 0
         /\ callLog[c].costData.therapistEarningsCoins = 0
         /\ debits[c] = <<>>
         /\ credits[c] = <<>>

\* a call ended while ringing by a request that claims 90 seconds
C16_Witness ==
  \E c \in CallIds :
    /\ callLog[c].status \in ENDED_STATUSES
    /\ callLog[c].actualStartTime = None
    /\ callLog[c].actualDuration = 90
    /\ coinBalance = InitialBalance

\* C17: when a settlement is applied to a payer whose balance is less than
\* the computed cost of the call, the charge is exactly that balance, the
\* earnings are half the charge rounded down and the balance is 0 afterwards;
\* in any case the earnings do not exceed the charge and the balance does
\* not go below 0.  Balance 3 against a cost of 10 gives charge 3 and
\* earnings 1.
C17_ClampToBalance ==
  [][/\ \A s \in Slots :
          (reqs[s].kind = "end" /\ reqs[s].pc = "debit" /\ coinBalance' # coinBalance)
            => LET c == reqs[s].call
                   u == callLog[c].userId
                   charge == coinBalance[u] - coinBalance'[u]
                   earnings == reqs[s].costData.therapistEarningsCoins
                   cost == calculateCallCost(reqs[s].actualDuration,
                                             callLog[c].callType).costInCoins
               IN /\ coinBalance'[u] >= 0
                  /\ earnings <= charge
                  /\ coinBalance[u] < cost
                       => (charge = coinBalance[u] /\ earnings = charge \div 2)
     /\ EndCostData([NoLog EXCEPT !.status = "answered"], 3, 90)
          = [durationMinutes |-> 2, costInCoins |-> 3,
             therapistEarningsCoins |-> 1]]_vars

\* ------------------------------------------------------------- a payer with a large balance
\* the accounts of the scenario: u1 holds 100 coins
FundedBalance == [u \in Users |-> IF u = "u1" THEN 100 ELSE 5]

InitFunded ==
  /\ InitProgramWith(FundedBalance)
  /\ costInput = [duration |-> 0, callType |-> "voice"]
  /\ routeCost = None
  /\ modelCost = None

SpecFunded == InitFunded /\ [][NextRest]_vars

C19_TimeoutEndsUncharged ==
  [][\A c \in CallIds :
       (ringTimer[c].pc = "update" /\ ringTimer'[c].pc = "off")
         => /\ callLog'[c].status = "missed"
            /\ callLog'[c].costData.costInCoins = 0
            /\ callLog'[c].costData.therapistEarningsCoins = 0
            /\ debits'[c] = <<>>
            /\ credits'[c] = <<>>]_vars

\* ------------------------------------------------------------- a call on both layers
\* one call of u1 to t1, as the two apps drive it: both are connected when
\* the user creates the call over REST; the user announces it on the socket
\* under the id REST returned; the therapist answers over REST and then
\* accepts on the socket; connections are made and lost at any time
NextLive ==
  \/ /\ connectedUsers["u1"] # 0 /\ connectedTherapists["t1"] # 0
     /\ InitiateStart(1, "u1", "t1", "voice")
  \/ InitiateContinue
  \/ \E c \in 1..MaxSockCalls : AnswerStart(1, "t1", c)
  \/ \E s \in Slots : AnswerFindTherapist(s) \/ AnswerUpdate(s)
  \/ SockPresence(1..MaxCallSockets, {"u1"}, {"t1"})
  \/ \E k \in 1..MaxCallSockets, c \in 1..MaxSockCalls :
       /\ callLog[c].status = "initiated" /\ reqs[1].kind = "idle"
       /\ CallTherapist(k, c, "u1", "t1")
  \/ \E f \in callInits : CallInitiationResume(f, TRUE)
  \/ \E k \in 1..MaxCallSockets, c \in 1..MaxSockCalls :
       /\ callLog[c].status = "answered"
       /\ CallAccepted(k, c, "u1")
  \/ \E k \in 1..MaxCallSockets, r \in 1..MaxSockCalls : JoinRoom(k, r)

SpecLive == Init /\ [][NextLive]_vars

\* C20: when the connection of the callee of an answered call disconnects
\* while the caller is connected on another connection, the call record
\* becomes ended and the caller's connection is sent a message about it.
C20_CalleeDisconnectEndsCall ==
  [][\A k \in SocketIds, c \in CallIds :
       (/\ sockets[k].state = "open" /\ sockets'[k].state = "closed"
        /\ IsCallee(k, c)
        /\ activeCalls[c].status = "answered"
        /\ callLog[c].status = "answered"
        /\ connectedUsers[activeCalls[c].userId] \notin {0, k})
         => /\ callLog'[c].status \in ENDED_STATUSES
            /\ \E m \in emitted' :
                 m.call = c /\ m.to = connectedUsers[activeCalls[c].userId]]_vars

\* C21: when a connection disconnects, every call of the call table in which
\* its identity takes part and whose record is still active gets a terminal
\* record: ended if the record was answered, missed if it was still ringing.
C21_DisconnectTerminatesCalls ==
  [][\A k \in SocketIds, c \in CallIds :
       (/\ sockets[k].state = "open" /\ sockets'[k].state = "closed"
        /\ c \in DisconnectCalls(k)
        /\ callLog[c].status \in ACTIVE_STATUSES)
         => /\ callLog[c].status = "answered"
                 => callLog'[c].status \in ENDED_STATUSES
            /\ callLog[c].status = "initiated"
                 => callLog'[c].status = "missed"]_vars

\* C22: no call is left with exactly one of the two legs of its settlement
\* applied: once no end request is in progress for a call, the payer has been
\* debited for it as many times as the therapist has been credited (the call
\* record has no field that could mark a failed settlement).
C22_NoHalfSettlement ==
  \A c \in CallIds :
    (\A s \in Slots : ~(reqs[s].kind = "end" /\ reqs[s].call = c))
      => Len(debits[c]) = Len(credits[c])


\* C23: once a call's record is settled (it has an ended status, written
\* together with its cost and earnings), no later step changes the recorded
\* cost or earnings.
C23_SettledCostIsFrozen ==
  [][\A c \in CallIds :
       callLog[c].status \in ENDED_STATUSES
         => callLog'[c].costData = callLog[c].costData]_vars


\* ------------------------------------------------------------- the periodic sweep
MaxSweepTime == 360

SWEEP_TIMEOUT == 300

SWEEP_INTERVAL == 60

\* the clock, advancing by the period of the sweep
TickMinute ==
  /\ now < MaxSweepTime
  /\ now' = now + SWEEP_INTERVAL
  /\ UNCHANGED <<restState, sockVars, sigVars, calcVars>>

\* the setInterval callback of server.js: every entry of activeCalls older
\* than the timeout is deleted
Sweep ==
  /\ now > 0 /\ now % SWEEP_INTERVAL = 0
  /\ activeCalls' = [c \in CallIds |->
                       IF /\ activeCalls[c].status # "none"
                          /\ now - activeCalls[c].initiatedAt > SWEEP_TIMEOUT
                         THEN NoActiveCall ELSE activeCalls[c]]
  /\ emitted' = {}
  /\ UNCHANGED <<restVars, calcVars, sigVars, sockets, connectedUsers,
                 connectedTherapists, callInits, timeouts>>

\* a handler is between two of its steps or a timer callback is due: the
\* clock does not pass them by
TimersDue ==
  \/ \E s \in Slots : reqs[s].kind # "idle"
  \/ callInits # {}
  \/ \E c \in CallIds :
       \/ ringTimer[c].pc = "update"
       \/ ringTimer[c].pc = "armed" /\ now >= ringTimer[c].date + RING_TIMEOUT
  \/ \E t \in timeouts : now >= t.due

\* one call between u1 (on connection 1) and t1 (on connection 2), placed
\* over REST and announced on the socket,
\* against the ring timers, the sweep and a clock that starts with the call
\* and runs past the sweep's timeout
NextSweep ==
  \/ ~TimersDue /\ callLog[1].status # "none" /\ TickMinute
  \/ Sweep
  \/ /\ connectedUsers["u1"] # 0 /\ connectedTherapists["t1"] # 0
     /\ InitiateStart(1, "u1", "t1", "voice")
  \/ InitiateContinue
  \/ \E c \in CallIds : TimerRead(c) \/ TimerUpdate(c)
  \/ \E c \in 1..MaxSockCalls : AnswerStart(1, "t1", c)
  \/ \E s \in Slots : AnswerFindTherapist(s) \/ AnswerUpdate(s)
  \/ \E k \in 1..MaxCallSockets : Connect(k) \/ Disconnect(k)
  \/ UserConnect(1, "u1")
  \/ TherapistConnect(2, "t1")
  \/ \E c \in 1..MaxSockCalls :
       /\ callLog[c].status = "initiated" /\ reqs[1].kind = "idle"
       /\ CallTherapist(1, c, "u1", "t1")
  \/ \E f \in callInits : CallInitiationResume(f, TRUE)
  \/ \E t \in timeouts : RingTimeout(t)
  \/ \E c \in 1..MaxSockCalls :
       /\ callLog[c].status = "answered"
       /\ CallAccepted(2, c, "u1")

SpecSweep == Init /\ [][NextSweep]_vars

\* C24: a sweep leaves no call older than five minutes ringing or answered,
\* neither in the call table nor in the call's record.
C24_SweepEndsOldCalls ==
  [][Sweep =>
       \A c \in CallIds :
         /\ (/\ activeCalls[c].status # "none"
             /\ now - activeCalls[c].initiatedAt > SWEEP_TIMEOUT)
              => activeCalls'[c].status \notin {"ringing", "answered"}
         /\ (/\ callLog[c].status # "none"
             /\ now - callLog[c].startTime > SWEEP_TIMEOUT)
              => callLog'[c].status \notin ACTIVE_STATUSES]_vars


\* the same, with what the server does by itself kept going: the clock, the
\* sweep, the timer callbacks and the handlers that have started (clients
\* are free never to send another request)
SpecSweepFair ==
  /\ SpecSweep
  /\ WF_vars(~TimersDue /\ callLog[1].status # "none" /\ TickMinute)
  /\ WF_vars(Sweep)
  /\ WF_vars(\E c \in CallIds : TimerRead(c) \/ TimerUpdate(c))
  /\ WF_vars(InitiateContinue)
  /\ WF_vars(\E s \in Slots : AnswerFindTherapist(s) \/ AnswerUpdate(s))
  /\ WF_vars(\E f \in callInits : CallInitiationResume(f, TRUE))
  /\ WF_vars(\E t \in timeouts : RingTimeout(t))

\* C25: every call whose record enters the ringing status eventually has a
\* terminal status in its record, as long as the timers and the sweep keep
\* firing.
C25_RingingEventuallyTerminal ==
  \A c \in CallIds :
    (callLog[c].status = "initiated") ~> (callLog[c].status \in TERMINAL_STATUSES)


\* ------------------------------------------------------------- admission
\* voice calls of u1 (on connection 1), placed over REST to any therapist and
\* announced on the socket to t2 (on connection 2), who is not available
NextGate ==
  \/ Tick
  \/ \E t \in Therapists :
       CanCreate(MaxRestCalls) /\ InitiateStart(1, "u1", t, "voice")
  \/ InitiateContinue
  \/ \E k \in 1..MaxCallSockets : Connect(k) \/ Disconnect(k)
  \/ UserConnect(1, "u1")
  \/ TherapistConnect(2, "t2")
  \/ \E c \in 1..MaxSockCalls : CallTherapist(1, c, "u1", "t2")
  \/ \E f \in callInits, ok \in BOOLEAN : CallInitiationResume(f, ok)
  \/ \E t \in timeouts : RingTimeout(t)

SpecGate == Init /\ [][NextGate]_vars

\* C26: a call enters the call table or gets a record only if its payer's
\* balance covers one minute at the call's rate (the cheapest rate for the call
\* table, which has no call type) and its callee is available; an initiate
\* request that is answered with an error changes neither the call table nor
\* the records nor the balances.
C26_AdmissionChecks ==
  [][/\ \A c \in CallIds :
          /\ (activeCalls[c].status = "none" /\ activeCalls'[c].status # "none")
               => /\ isAvailable[activeCalls'[c].therapistId]
                  /\ coinBalance[activeCalls'[c].userId] >= costPerMinute("voice")
          /\ (callLog[c].status = "none" /\ callLog'[c].status # "none")
               => /\ isAvailable[callLog'[c].therapistId]
                  /\ coinBalance[callLog'[c].userId]
                       >= costPerMinute(callLog'[c].callType)
     /\ \A s \in Slots :
          (reqs[s].kind = "initiate" /\ lastResp' # lastResp /\ lastResp'.code >= 400)
            => UNCHANGED <<callLog, activeCalls, coinBalance, totalEarningsCoins>>]_vars


\* C27: when the handler of a call initiation on the socket comes back from
\* the notifier, whether the notifier failed or not, the caller is sent no
\* error and a ring timeout is scheduled for the call; a REST initiation whose
\* call was saved answers success with the ring timer armed.
C27_NotifierFailureIsHarmless ==
  [][/\ \A f \in callInits :
          f \notin callInits'
            => /\ \A m \in emitted' : m.event # "call-error"
               /\ \E t \in timeouts' : t.callId = f.callId
     /\ \A s \in Slots :
          (reqs[s].kind = "initiate" /\ reqs[s].pc = "notify")
            => (reqs'[s].kind = "idle"
                  => /\ lastResp'.code = 200
                     /\ ringTimer'[reqs[s].call].pc # "off"
                     /\ callLog'[reqs[s].call].status # "none")]_vars


\* C28: the presence entry of an identity holds the connection of its most
\* recent registration for as long as that connection is live: while the
\* connection an entry holds stays open, the entry is only ever replaced by a
\* newer registration, never emptied.
C28_PresenceResolvesToLatest ==
  [][/\ \A u \in Users :
          (connectedUsers[u] # 0 /\ sockets'[connectedUsers[u]].state = "open")
            => connectedUsers'[u] # 0
     /\ \A t \in Therapists :
          (connectedTherapists[t] # 0
             /\ sockets'[connectedTherapists[t]].state = "open")
            => connectedTherapists'[t] # 0
     /\ \A i \in Identities :
          (sigConnectedUsers[i] # 0 /\ sockets'[sigConnectedUsers[i]].state = "open")
            => sigConnectedUsers'[i] # 0]_vars


\* C29: a signaling payload is delivered only for a call that is in the call
\* table (ringing or answered there; calls that ended are removed from it).
C29_RelayOnlyForLiveCall ==
  \A m \in emitted :
    /\ m.event \in WEBRTC_SIGNALS => sigActiveCalls[m.call].status # "none"
    /\ m.event \in SIGNALS => activeCalls[m.call].status # "none"


\* C30: in every call record the answer time is not before the creation time,
\* and the end time is not before the answer time (not before the creation
\* time when the call was never answered).
C30_TimestampsInOrder ==
  \A c \in CallIds :
    Exists(c) =>
      /\ callLog[c].actualStartTime # None
           => callLog[c].actualStartTime[1] >= callLog[c].startTime
      /\ callLog[c].endTime # None
           => callLog[c].endTime[1] >=
                (IF callLog[c].actualStartTime # None
                   THEN callLog[c].actualStartTime[1]
                   ELSE callLog[c].startTime)


\* C31: an end request for an existing call, made by an identity that is
\* neither the call's user nor its therapist, is answered 403 "Unauthorized to
\* end this call" whatever the call's status, and changes neither the call
\* records nor the balances.
C31_OutsiderEndIsUnauthorized ==
  [][\A id \in Identities, c \in CallIds,
        endedBy \in {"user", "therapist"}, duration \in DurationInputs :
       (/\ reqs[1].kind = "idle"
        /\ Exists(c)
        /\ id \notin {callLog[c].userId, callLog[c].therapistId}
        /\ EndStart(1, id, c, endedBy, duration))
         => /\ lastResp' = [code |-> 403, msg |-> "Unauthorized to end this call"]
            /\ reqs'[1].kind = "idle"
            /\ UNCHANGED <<callLog, coinBalance, totalEarningsCoins>>]_vars


\* ------------------------------------------------------------- disconnects
\* calls of u1 announced on the socket, to t1 or with the therapistId left out
\* of the payload
NextDrop ==
  \/ Tick
  \/ SockPresence(1..MaxCallSockets, {"u1"}, {"t1"})
  \/ \E k \in 1..MaxCallSockets, c \in 1..MaxSockCalls, t \in {"t1", ""} :
       CallTherapist(k, c, "u1", t)
  \/ \E f \in callInits, ok \in BOOLEAN : CallInitiationResume(f, ok)
  \/ \E t \in timeouts : RingTimeout(t)

SpecDrop == Init /\ [][NextDrop]_vars

\* the identities a connection has registered
SocketIdentities(k) == {sockets[k].userId, sockets[k].therapistId} \ {""}

\* C32: a disconnect leaves every call of the call table alone in which none
\* of the identities of the disconnecting connection takes part.
C32_DisconnectSparesOtherCalls ==
  [][\A k \in SocketIds, c \in CallIds :
       (sockets[k].state = "open" /\ sockets'[k].state = "closed")
         => /\ (/\ activeCalls[c].status # "none"
                /\ SocketIdentities(k)
                     \cap {activeCalls[c].userId, activeCalls[c].therapistId} = {})
                 => activeCalls'[c] = activeCalls[c]
            /\ (/\ sigActiveCalls[c].status # "none"
                /\ userSockets[k]
                     \notin {sigActiveCalls[c].callerID, sigActiveCalls[c].calleeID})
                 => sigActiveCalls'[c] = sigActiveCalls[c]]_vars


\* C33: when the ring timeout of a call that is still ringing fires, the
\* call-timeout notification is sent to the connection the call's user has
\* registered at that moment (and to nobody when the user has none).
C33_TimeoutGoesToCurrentConnection ==
  [][\A t \in timeouts :
       (t \notin timeouts' /\ activeCalls[t.callId].status = "ringing")
         => emitted' = EmitTo("call-timeout",
                              Get(connectedUsers, activeCalls[t.callId].userId),
                              t.callId, 0)]_vars


\* ------------------------------------------------------------- settlements
\* two calls of u1 to t1, one after the other, with requests served
\* concurrently: end requests report 30 or 90 seconds
NextDebt ==
  \/ \E s \in Slots : InitiateStart(s, "u1", "t1", "voice")
  \/ InitiateContinue
  \/ \E s \in Slots, c \in CallIds : AnswerStart(s, "t1", c)
  \/ \E s \in Slots : AnswerFindTherapist(s) \/ AnswerUpdate(s)
  \/ \E s \in Slots, c \in CallIds, duration \in {Some(30), Some(90)} :
       EndStart(s, "u1", c, "user", duration)
  \/ EndContinue

SpecDebt == Init /\ [][NextDebt]_vars

RECURSIVE SumSeq(_)
SumSeq(q) == IF q = <<>> THEN 0 ELSE Head(q) + SumSeq(Tail(q))

RECURSIVE SumOver(_, _)
SumOver(f, S) ==
  IF S = {} THEN 0
  ELSE LET x == CHOOSE y \in S : TRUE IN SumSeq(f[x]) + SumOver(f, S \ {x})

\* C34: the coins credited to therapists never total more than the coins
\* debited from users, and no call record shows earnings above its cost.
C34_CreditsWithinDebits ==
  /\ SumOver(credits, CallIds) <= SumOver(debits, CallIds)
  /\ \A c \in CallIds :
       Exists(c) => callLog[c].costData.therapistEarningsCoins
                      <= callLog[c].costData.costInCoins


\* C35: the ring timeout of the socket layer neither removes a call whose
\* record is answered from the call table nor sends a call-timeout for it.
C35_AnsweredCallNotTimedOut ==
  [][\A t \in timeouts :
       (t \notin timeouts' /\ callLog[t.callId].status = "answered")
         => /\ activeCalls'[t.callId] = activeCalls[t.callId]
            /\ \A m \in emitted' : m.event # "call-timeout"]_vars


\* C36: an answer-call event for a ringing call whose user is registered on
\* another connection leaves the call answered in the call table and sends
\* call-accepted to the user's connection; a reject-call event for it removes
\* the call from the table and sends call-rejected to the user's connection.
C36_AlternativeEventsAct ==
  [][\A k \in SocketIds, c \in CallIds :
       LET caller == Get(connectedUsers, activeCalls[c].userId) IN
       (activeCalls[c].status = "ringing" /\ caller \notin {0, k})
         => /\ EchoToSender(k, "call-accepted", c)
                 => /\ activeCalls'[c].status = "answered"
                    /\ \E m \in emitted' :
                         m.event = "call-accepted" /\ m.to = caller /\ m.call = c
            /\ EchoToSender(k, "call-rejected", c)
                 => /\ activeCalls'[c].status = "none"
                    /\ \E m \in emitted' :
                         m.event = "call-rejected" /\ m.to = caller /\ m.call = c]_vars


\* ------------------------------------------------------------- repeated initiations
MaxRings == 2

\* the call identifier 1 announced by u1 (on connection 1) to t1 (on
\* connection 2) up to MaxRings times, rejected in between or not
NextRing ==
  \/ Tick
  \/ \E k \in 1..MaxCallSockets : Connect(k) \/ Disconnect(k)
  \/ UserConnect(1, "u1")
  \/ TherapistConnect(2, "t1")
  \/ CallTherapistWithin(MaxRings, 1, 1, "u1", "t1")
  \/ \E f \in callInits : CallInitiationResume(f, TRUE)
  \/ \E t \in timeouts : RingTimeout(t)
  \/ CallRejected(2, 1, "u1")

SpecRing == Init /\ [][NextRing]_vars

\* C37: the ring timeout removes a ringing call from the call table no earlier
\* than 30 seconds after the initiation that stored it.
C37_TimeoutAfterOwnInitiation ==
  [][\A t \in timeouts :
       (/\ t \notin timeouts'
        /\ activeCalls[t.callId].status = "ringing"
        /\ activeCalls'[t.callId].status = "none")
         => now >= activeCalls[t.callId].initiatedAt + RING_TIMEOUT]_vars


\* C38: the end operation writes the status ended_by_user only for a request
\* made by the call's user, and ended_by_therapist only for a request made by
\* the call's therapist.
C38_EndedByNamesRequester ==
  [][\A s \in Slots :
       (reqs[s].kind = "end" /\ reqs[s].pc = "updateLog")
         => LET c == reqs[s].call IN
            /\ (callLog'[c].status = "ended_by_user" /\ reqs'[s].pc # "updateLog")
                 => reqs[s].id = callLog[c].userId
            /\ (callLog'[c].status = "ended_by_therapist" /\ reqs'[s].pc # "updateLog")
                 => reqs[s].id = callLog[c].therapistId]_vars


\* C39: an initiate-call of the signaling server whose callee has no presence
\* entry sends call-error to the sender and nothing else, and leaves the
\* active-call table as it was: an entry enters the table only for a callee
\* who is registered, and a call-error comes alone, to its sender, with the
\* table unchanged.
C39_InitiateToAbsentCallee ==
  [][/\ \A k \in SocketIds, c \in 1..MaxSockCalls :
          (sigConnectedUsers["t1"] = 0 /\ SigInitiateCall(k, "u1", "t1", c))
            => /\ emitted' = {Msg("call-error", k, c, k)}
               /\ sigActiveCalls' = sigActiveCalls
     /\ \A c \in CallIds :
          (sigActiveCalls[c].status = "none" /\ sigActiveCalls'[c].status # "none")
            => sigConnectedUsers[sigActiveCalls'[c].calleeID] # 0
     /\ \A m \in emitted' :
          m.event = "call-error"
            => /\ emitted' = {m} /\ m.to = m.from
               /\ sigActiveCalls' = sigActiveCalls]_vars

\* a call-error for an initiate-call while the callee t1 is not registered and
\* another connection is open
C39_Witness ==
  /\ sigConnectedUsers["t1"] = 0
  /\ \E m \in emitted :
       /\ m.event = "call-error"
       /\ \E x \in SocketIds : x # m.from /\ sockets[x].state = "open"

====
